---- MODULE Spec2Model ----
(***************************************************************************)
(* TMP117 'Lite' driver (lib/TMP117/TMP117.cpp, TMP117.h) together with    *)
(* the device it drives over I2C.                                          *)
(*                                                                         *)
(* Integer model: the documented target is the SAMD21G (tmp117_example.h   *)
(* line 4), so int is 32 bits wide: int16_t and uint16_t operands are      *)
(* promoted to int before every comparison and every +/- 6, and the        *)
(* arithmetic on them is exact.  int16_t fields are kept as signed         *)
(* integers, words on the wire as 0 .. 65535.                              *)
(*                                                                         *)
(* Control model: one main context and one interrupt context ("isr", the   *)
(* Data Ready handler that calls readSensor).  An interrupt handler runs   *)
(* to completion before the interrupted code resumes.                      *)
(***************************************************************************)
EXTENDS Integers, Sequences, FiniteSets, TLC

\* ---------------------------------------------------------------- bounds
\* Largest retry budget handed to a direct progEeprom call.
MaxBudget == 2

\* Number of driver calls the application makes after init.
MaxCalls == 2

\* Largest number of programming operations a device fails before it takes one.
MaxFails == 3

\* ------------------------------------------------------- program constants
temp_r == 0
conf_r == 1
thl_r == 2
tll_r == 3
eep_ul_r == 4
eep_unlock == 32768
eep_busy == 16384
shutdown == 1024
one_shot == 3072
TMP117_MOD_CLR_MASK == 62463
TMP117_CONF_RD == 1124
DefaultRetries == 2
Hysteresis == 6
SentinelMin == 24576
SentinelMax == 32768
T_NOW == 0
T_MIN == 1
T_MAX == 2
Word == 65536

\* ------------------------------------------------------ integer conversions
\* Conversion of a value to int16_t (modular on every supported build).
ToS16(i) == LET w == i % Word IN IF w >= 32768 THEN w - Word ELSE w

\* Conversion of a value to uint16_t.
ToU16(i) == i % Word

RECURSIVE BitAnd(_, _)
\* Bitwise & of two non-negative integers.
BitAnd(a, b) ==
  IF a = 0 \/ b = 0 THEN 0
  ELSE (a % 2) * (b % 2) + 2 * BitAnd(a \div 2, b \div 2)

\* Bitwise | of two non-negative integers.
BitOr(a, b) == a + b - BitAnd(a, b)

\* A uint32_t bitmask is kept as the set of the positions of its 1 bits.
\* Sensor_serviced(s): 1u << s, for s in 0 .. 31.
Sensor_serviced(s) == {s}

\* ------------------------------------------------------------- I2C framing
\* i2cWrite2B: the two bytes put on the wire for an int16_t, high byte first.
I2cWriteBytes(data) == << (data \div 256) % 256, data % 256 >>

\* The 16-bit word the device receives from the two bytes.
WireWord(bytes) == bytes[1] * 256 + bytes[2]

\* i2cWrite2B(reg, data): the word the device receives.
i2cWrite2B(data) == WireWord(I2cWriteBytes(data))

\* i2cRead2B: the device sends the word high byte first; data is an int16_t
\* accumulator, shifted left by 8 and or-ed with each byte; the result is
\* returned as uint16_t.
i2cRead2B(word) ==
  LET hi == word \div 256
      lo == word % 256
      d1 == ToS16(BitOr(0 * 256, hi))
      d2 == ToS16(BitOr(d1 * 256, lo))
  IN  ToU16(d2)

\* ------------------------------------------------------------------ device
EepRegs == {conf_r, thl_r, tll_r}
DevRegs == {temp_r, conf_r, thl_r, tll_r}

\* dev.fails: the number of coming programming operations the EEPROM does not
\* take (AlwaysFails: none is ever taken).
AlwaysFails == -1
FaultModes == (0 .. MaxFails) \cup {AlwaysFails}

\* A programming operation that fails leaves a word that differs from the
\* written one in bit 2, a bit the configuration read-back mask keeps.
Corrupt(w) == IF BitAnd(w, 4) = 0 THEN w + 4 ELSE w - 4

\* The word a failed programming operation leaves in the cell of register r:
\* bit 2 differs in the configuration register, bit 0 in a limit register.
CorruptAt(r, w) ==
  IF r = conf_r THEN Corrupt(w)
  ELSE IF w % 2 = 0 THEN w + 1 ELSE w - 1

\* The bits of the configuration register that are reloaded from the EEPROM;
\* the flags in bits 15 .. 12 and bits 1 .. 0 read 0 after a reset.
ConfPersist == 4092

\* Register read-back: the unlock register shows the unlock and busy flags.
DevRead(d, r) ==
  IF r = eep_ul_r
  THEN (IF d.unlocked THEN eep_unlock ELSE 0) + (IF d.busy THEN eep_busy ELSE 0)
  ELSE d.reg[r]

\* Reading the temperature register releases the Data Ready alert.
DevAfterRead(d, r) == IF r = temp_r THEN [d EXCEPT !.alert = FALSE] ELSE d

\* Register write.  A write to the unlock register with the unlock bit opens
\* the EEPROM; a write to an EEPROM-backed register while unlocked starts a
\* programming operation (busy), which the cell takes or not; a configuration
\* write with the one-shot mode starts a conversion.
DevWrite(d, r, w) ==
  IF r = eep_ul_r
  THEN [d EXCEPT !.unlocked = (BitAnd(w, eep_unlock) # 0)]
  ELSE LET d1 == [d EXCEPT !.reg[r] = w]
           d2 == IF d.unlocked /\ r \in EepRegs
                 THEN [d1 EXCEPT !.eep[r] = IF d.fails = 0 THEN w ELSE CorruptAt(r, w),
                                 !.fails = IF d.fails > 0 THEN d.fails - 1 ELSE d.fails,
                                 !.busy = TRUE]
                 ELSE d1
       IN  IF r = conf_r /\ BitAnd(w, one_shot) = one_shot
           THEN [d2 EXCEPT !.conv = TRUE]
           ELSE d2

\* I2C general-call reset: the EEPROM is locked and the read/write registers
\* are reloaded from it; the device is busy while it reloads.
DevGeneralCall(d) ==
  [d EXCEPT !.reg = [r \in DevRegs |->
                       IF r = conf_r THEN BitAnd(d.eep[r], ConfPersist)
                       ELSE IF r \in EepRegs THEN d.eep[r] ELSE d.reg[r]],
            !.unlocked = FALSE,
            !.busy = TRUE,
            !.conv = FALSE]

\* ------------------------------------------------------------------- state
Ctx == {"main", "isr"}

VARIABLES
  dev,             \* the TMP117: reg, eep, unlocked, busy, conv, alert, fails
  ctor_e,          \* the error handler passed to the constructor
  error_,          \* TMP117::error_
  thisSensor_,     \* TMP117::thisSensor_
  saveTemp_,       \* TMP117::saveTemp_
  actualTemp_,     \* TMP117::actualTemp_
  minTemp_,        \* TMP117::minTemp_
  maxTemp_,        \* TMP117::maxTemp_
  config_,         \* TMP117::config_
  busy,            \* static bool busy of progEeprom
  sensorsServiced, \* the application's serviced bitmask
  calls,           \* driver calls made by the application so far
  phase,           \* "constructed" or "ready" (after init)
  irq,             \* a Data Ready interrupt is pending
  fr               \* per context: the running call, its position and locals

vars == << dev, ctor_e, error_, thisSensor_, saveTemp_, actualTemp_,
           minTemp_, maxTemp_, config_, busy, sensorsServiced, calls, phase,
           irq, fr >>

drv == << error_, thisSensor_, saveTemp_, actualTemp_, minTemp_, maxTemp_,
          config_ >>

\* Values the device's limit registers, configuration and temperature take.
\* <<high limit, low limit>> words held by the device at power-up.
LimitsInit == { <<3000, 2000>>, <<SentinelMin, SentinelMax>>,
                <<2566, 2554>>, <<2565, 2555>> }
\* 0x8220: averaging 8, mode field 00, HIGH_Alert flag set.
ConfInit == {33312}
\* Conversion results (2560 is 20.0 degrees C, 65530 is -6 increments).
RawReadings == {2560, 65530}
SensorIds == {0, 31}
\* The application's mask at the start: another sensor, number 1, has
\* already set its bit.
ServicedInit == {{1}}
\* config_ is set by initSetup only; after init alone it is indeterminate.
ConfigIndet == {8736, 9252}
ProgVals == {100}

NoHandler == "nullptr"
Handlers == {"Error"}

\* A context with no call in progress.
IdleFrame ==
  [op |-> "idle", pc |-> "idle", rpc |-> "idle", top |-> FALSE,
   reg |-> 0, val |-> 0, retries |-> 0, check |-> 0, ret |-> FALSE,
   err |-> FALSE, rv |-> 0, errs |-> << >>,
   budget0 |-> 0, val0 |-> 0, refused |-> FALSE,
   nUnlock |-> 0, nProgram |-> 0, nReset |-> 0, nVerify |-> 0,
   nWrite |-> 0, nRead |-> 0, nFail |-> 0,
   raw |-> 0, min0 |-> 0, max0 |-> 0, serviced0 |-> {},
   updMin |-> FALSE, updMax |-> FALSE,
   rdLow |-> 0, rdHigh |-> 0, rdConf |-> 0, wrConf |-> 0,
   rawCheck |-> 0, valIn |-> 0, tried |-> {}, failed |-> {},
   prevOp |-> "idle", cmin |-> 0, cmax |-> 0]

\* TMP117::TMP117: the member initializer error_(e = nullptr) assigns nullptr
\* to the parameter and stores the result.
Constructor(e) == NoHandler

Init ==
  /\ dev \in { [reg |-> [r \in DevRegs |->
                          CASE r = temp_r -> t [] r = conf_r -> c
                            [] r = thl_r -> b[1] [] OTHER -> b[2]],
                eep |-> [r \in EepRegs |->
                          CASE r = conf_r -> c [] r = thl_r -> b[1] [] OTHER -> b[2]],
                unlocked |-> FALSE, busy |-> FALSE, conv |-> FALSE,
                alert |-> FALSE, fails |-> n]
               : c \in ConfInit, b \in LimitsInit, n \in FaultModes,
                 t \in RawReadings }
  /\ ctor_e \in Handlers
  /\ error_ = Constructor(ctor_e)
  /\ thisSensor_ = 0
  /\ saveTemp_ = FALSE
  /\ actualTemp_ = 0
  /\ minTemp_ = 0
  /\ maxTemp_ = 0
  /\ config_ \in ConfigIndet
  /\ busy = FALSE
  /\ sensorsServiced \in ServicedInit
  /\ calls = 0
  /\ phase = "constructed"
  /\ irq = FALSE
  /\ fr = [c \in Ctx |-> IdleFrame]

\* The interrupted context does not run while the handler is active.
Runs(c) == c = "isr" \/ fr["isr"].op = "idle"

\* ---------------------------------------------------------------- progEeprom
\* Call progEeprom(reg, val, retries) from frame f, to resume at rpc.
CallProg(f, reg, val, retries, rpc) ==
  [f EXCEPT !.pc = "pe_guard", !.rpc = rpc, !.top = TRUE,
            !.reg = reg, !.val = val, !.retries = retries,
            !.budget0 = retries, !.val0 = val, !.refused = FALSE,
            !.tried = f.tried \cup {reg},
            !.nUnlock = 0, !.nProgram = 0, !.nReset = 0, !.nVerify = 0]

\* Variant: the entry test does not look at the latch.
GuardFailsNoBusy(retries, b) == retries < 0

\* Variant: the entry test joins its two conditions with &&.
GuardFailsAnd(retries, b) == retries < 0 /\ b

\* Variant: the entry test gives up one retry early.
GuardFailsOffByOne(retries, b) == retries <= 0 \/ b

\* The entry test: retries < 0 || busy.
GuardFails(retries, b) == retries < 0 \/ b

\* if (retries < 0 || busy) return true;
PE_Guard(c) ==
  /\ Runs(c)
  /\ fr[c].pc = "pe_guard"
  /\ LET f == fr[c] IN
     fr' = [fr EXCEPT ![c] =
        IF GuardFails(f.retries, busy)
        THEN [f EXCEPT !.pc = f.rpc, !.ret = TRUE,
                       !.refused = IF f.top THEN busy ELSE f.refused]
        ELSE [f EXCEPT !.pc = "pe_acquire"]]
  /\ UNCHANGED << dev, ctor_e, drv, busy, sensorsServiced, calls,
                  phase, irq >>

\* busy = true;
PE_Acquire(c) ==
  /\ Runs(c)
  /\ fr[c].pc = "pe_acquire"
  /\ busy' = TRUE
  /\ fr' = [fr EXCEPT ![c].pc = "pe_unlock"]
  /\ UNCHANGED << dev, ctor_e, drv, sensorsServiced, calls, phase, irq >>

\* i2cWrite2B(eep_ul_r, eep_unlock);
PE_Unlock(c) ==
  /\ Runs(c)
  /\ fr[c].pc = "pe_unlock"
  /\ dev' = DevWrite(dev, eep_ul_r, i2cWrite2B(ToS16(eep_unlock)))
  /\ fr' = [fr EXCEPT ![c].pc = "pe_program",
                      ![c].nUnlock = @ + 1, ![c].nWrite = @ + 1]
  /\ UNCHANGED << ctor_e, drv, busy, sensorsServiced, calls, phase, irq >>

\* i2cWrite2B(reg, val); // start programming operation
PE_Program(c) ==
  /\ Runs(c)
  /\ fr[c].pc = "pe_program"
  /\ dev' = DevWrite(dev, fr[c].reg, i2cWrite2B(fr[c].val))
  /\ fr' = [fr EXCEPT ![c].pc = "pe_poll1",
                      ![c].nProgram = @ + 1, ![c].nWrite = @ + 1]
  /\ UNCHANGED << ctor_e, drv, busy, sensorsServiced, calls, phase, irq >>

\* Variant: the first wait is left after one read, whatever it shows.
PE_Poll1NoWait(c) ==
  /\ Runs(c)
  /\ fr[c].pc = "pe_poll1"
  /\ fr' = [fr EXCEPT ![c].pc = "pe_reset"]
  /\ UNCHANGED << dev, ctor_e, drv, busy, sensorsServiced, calls,
                  phase, irq >>

\* while (i2cRead2B(eep_ul_r) & eep_busy) ;   (first wait)
PE_Poll1(c) ==
  /\ Runs(c)
  /\ fr[c].pc = "pe_poll1"
  /\ fr' = [fr EXCEPT ![c].pc =
        IF BitAnd(i2cRead2B(DevRead(dev, eep_ul_r)), eep_busy) # 0
        THEN "pe_poll1" ELSE "pe_reset"]
  /\ UNCHANGED << dev, ctor_e, drv, busy, sensorsServiced, calls,
                  phase, irq >>

\* Wire.beginTransmission(0x00); Wire.write(0x06); Wire.endTransmission();
PE_Reset(c) ==
  /\ Runs(c)
  /\ fr[c].pc = "pe_reset"
  /\ dev' = DevGeneralCall(dev)
  /\ fr' = [fr EXCEPT ![c].pc = "pe_poll2",
                      ![c].nReset = @ + 1, ![c].nWrite = @ + 1]
  /\ UNCHANGED << ctor_e, drv, busy, sensorsServiced, calls, phase, irq >>

\* Variant: the second wait tests the busy bit the wrong way round.
PE_Poll2Inverted(c) ==
  /\ Runs(c)
  /\ fr[c].pc = "pe_poll2"
  /\ fr' = [fr EXCEPT ![c].pc =
        IF BitAnd(i2cRead2B(DevRead(dev, eep_ul_r)), eep_busy) = 0
        THEN "pe_poll2" ELSE "pe_verify"]
  /\ UNCHANGED << dev, ctor_e, drv, busy, sensorsServiced, calls,
                  phase, irq >>

\* while (i2cRead2B(eep_ul_r) & eep_busy) ;   (second wait)
PE_Poll2(c) ==
  /\ Runs(c)
  /\ fr[c].pc = "pe_poll2"
  /\ fr' = [fr EXCEPT ![c].pc =
        IF BitAnd(i2cRead2B(DevRead(dev, eep_ul_r)), eep_busy) # 0
        THEN "pe_poll2" ELSE "pe_verify"]
  /\ UNCHANGED << dev, ctor_e, drv, busy, sensorsServiced, calls,
                  phase, irq >>

\* Variant: the read-back mask is applied whatever the register.
VerifyMaskAll(reg, v) == ToS16(BitAnd(ToU16(v), TMP117_CONF_RD))

\* Variant: the read-back mask is not applied.
VerifyNoMask(reg, v) == v

\* The value compared in the verify step: masked for the configuration
\* register only.
VerifyMask(reg, v) == IF reg = conf_r THEN ToS16(BitAnd(ToU16(v), TMP117_CONF_RD)) ELSE v

\* int16_t check = i2cRead2B(reg); if (reg == conf_r) { check &= ...; val &= ...; }
PE_Verify(c) ==
  /\ Runs(c)
  /\ fr[c].pc = "pe_verify"
  /\ LET f == fr[c] IN
     fr' = [fr EXCEPT ![c] =
        [f EXCEPT !.pc = "pe_release",
                  !.rawCheck = ToS16(i2cRead2B(DevRead(dev, f.reg))),
                  !.valIn = f.val,
                  !.check = VerifyMask(f.reg, ToS16(i2cRead2B(DevRead(dev, f.reg)))),
                  !.val = VerifyMask(f.reg, f.val),
                  !.nVerify = f.nVerify + 1, !.nRead = f.nRead + 1]]
  /\ UNCHANGED << dev, ctor_e, drv, busy, sensorsServiced, calls,
                  phase, irq >>

\* Variant: the latch is not cleared after the verify step.
PE_ReleaseSkip(c) ==
  /\ Runs(c)
  /\ fr[c].pc = "pe_release"
  /\ fr' = [fr EXCEPT ![c].pc = "pe_decide"]
  /\ UNCHANGED << dev, ctor_e, drv, busy, sensorsServiced, calls, phase, irq >>

\* busy = false;
PE_Release(c) ==
  /\ Runs(c)
  /\ fr[c].pc = "pe_release"
  /\ busy' = FALSE
  /\ fr' = [fr EXCEPT ![c].pc = "pe_decide"]
  /\ UNCHANGED << dev, ctor_e, drv, sensorsServiced, calls, phase, irq >>

\* return !(check == val || !progEeprom(reg, val, retries - 1));
\* On a match the call returns false; otherwise its result is the result of
\* the nested call, which starts at the entry test with retries - 1.
PE_Decide(c) ==
  /\ Runs(c)
  /\ fr[c].pc = "pe_decide"
  /\ LET f == fr[c] IN
     fr' = [fr EXCEPT ![c] =
        IF f.check = f.val
        THEN [f EXCEPT !.pc = f.rpc, !.ret = FALSE]
        ELSE [f EXCEPT !.pc = "pe_guard", !.retries = f.retries - 1,
                       !.top = FALSE]]
  /\ UNCHANGED << dev, ctor_e, drv, busy, sensorsServiced, calls,
                  phase, irq >>

ProgEeprom(c) ==
  \/ PE_Guard(c)
  \/ PE_Acquire(c)
  \/ PE_Unlock(c)
  \/ PE_Program(c)
  \/ PE_Poll1(c)
  \/ PE_Reset(c)
  \/ PE_Poll2(c)
  \/ PE_Verify(c)
  \/ PE_Release(c)
  \/ PE_Decide(c)

\* A direct call progEeprom(reg, val, retries) with an explicit retry budget.
CallProgEeprom ==
  /\ phase = "ready"
  /\ Runs("main")
  /\ fr["main"].op = "idle"
  /\ calls < MaxCalls
  /\ calls' = calls + 1
  /\ \E reg \in EepRegs, val \in ProgVals, n \in -1 .. MaxBudget :
       fr' = [fr EXCEPT !["main"] =
                CallProg([IdleFrame EXCEPT !.op = "progEeprom"], reg, val, n, "done")]
  /\ UNCHANGED << dev, ctor_e, drv, busy, sensorsServiced, phase, irq >>

\* The call has returned to the application.
Return(c) ==
  /\ Runs(c)
  /\ fr[c].pc = "done"
  /\ fr' = [fr EXCEPT ![c] = IdleFrame]
  /\ UNCHANGED << dev, ctor_e, drv, busy, sensorsServiced, calls,
                  phase, irq >>

\* ------------------------------------------------------------------- init
\* TMP117::init(saveMinMax, sensorId): attaches the Data Ready handler, waits
\* for the POR sequence, then loads the cached bounds from the limit registers.
\* Variant: the minimum is loaded from the low limit register.
LoadMinFromLow(d) == ToS16(i2cRead2B(DevRead(d, tll_r)))

\* minTemp_ = i2cRead2B(thl_r);
LoadMin(d) == ToS16(i2cRead2B(DevRead(d, thl_r)))

\* maxTemp_ = i2cRead2B(tll_r);
LoadMax(d) == ToS16(i2cRead2B(DevRead(d, tll_r)))

InitSensor ==
  /\ phase = "constructed"
  /\ ~dev.busy
  /\ \E s \in BOOLEAN, id \in SensorIds :
       /\ saveTemp_' = s
       /\ thisSensor_' = id
  /\ minTemp_' = LoadMin(dev)
  /\ maxTemp_' = LoadMax(dev)
  /\ phase' = "ready"
  /\ UNCHANGED << dev, ctor_e, error_, actualTemp_, config_, busy,
                  sensorsServiced, calls, irq, fr >>

\* The application calls init again, with the arguments of the first init,
\* when a call has returned (a restart of the application on the same
\* device).  The frame keeps the record of the call that returned before it and
\* notes the cached bounds init overwrites.
ReInit ==
  /\ phase = "ready"
  /\ Runs("main")
  /\ fr["main"].pc = "done"
  /\ fr["main"].op # "init"
  /\ ~dev.busy
  /\ minTemp_' = LoadMin(dev)
  /\ maxTemp_' = LoadMax(dev)
  /\ fr' = [fr EXCEPT !["main"].op = "init", !["main"].prevOp = fr["main"].op,
                      !["main"].cmin = minTemp_, !["main"].cmax = maxTemp_]
  /\ UNCHANGED << dev, ctor_e, error_, thisSensor_, saveTemp_, actualTemp_,
                  config_, busy, sensorsServiced, calls, phase, irq >>

\* --------------------------------------------------------- startConversion
\* Variant: the averaging field is cleared as well (mask 0xFF9F of initSetup).
StartWordClearsAvg(rd) ==
  LET config == ToS16(BitAnd(BitAnd(rd, TMP117_MOD_CLR_MASK), 65439))
  IN  i2cWrite2B(ToS16(BitOr(ToU16(config), one_shot)))

\* The word startConversion writes for a configuration read-back rd:
\* int16_t config = rd & TMP117_MOD_CLR_MASK; write config | one_shot.
StartWord(rd) ==
  LET config == ToS16(BitAnd(rd, TMP117_MOD_CLR_MASK))
  IN  i2cWrite2B(ToS16(BitOr(ToU16(config), one_shot)))

\* TMP117::startConversion
StartConversion ==
  /\ phase = "ready"
  /\ Runs("main")
  /\ fr["main"].op = "idle"
  /\ calls < MaxCalls
  /\ calls' = calls + 1
  /\ LET rd == i2cRead2B(DevRead(dev, conf_r))
         w == StartWord(rd)
     IN  /\ dev' = DevWrite(dev, conf_r, w)
         /\ fr' = [fr EXCEPT !["main"] =
                     [IdleFrame EXCEPT !.op = "startConversion", !.pc = "done",
                                       !.rdConf = rd, !.wrConf = w,
                                       !.nRead = 1, !.nWrite = 1]]
  /\ UNCHANGED << ctor_e, drv, busy, sensorsServiced, phase, irq >>

\* ---------------------------------------------------------- getTemperature
\* return p == T_MIN ? minTemp_ : p == T_MAX ? maxTemp_ : actualTemp_;
getTemperature(p) ==
  IF p = T_MIN THEN minTemp_ ELSE IF p = T_MAX THEN maxTemp_ ELSE actualTemp_

\* -------------------------------------------------------------- readSensor
\* Variant: the minimum test has no margin.
BelowMinNoMargin(actual, min) == actual <= min

\* actualTemp_ <= minTemp_ - 6
BelowMin(actual, min) == actual <= min - Hysteresis

\* Variant: the maximum test is strict.
AboveMaxStrict(actual, max) == actual > max + Hysteresis

\* actualTemp_ >= maxTemp_ + 6
AboveMax(actual, max) == actual >= max + Hysteresis

\* The frame of a readSensor call at its first statement.
ReadSensorFrame ==
  [IdleFrame EXCEPT !.op = "readSensor", !.pc = "rs_read",
                    !.min0 = minTemp_, !.max0 = maxTemp_,
                    !.serviced0 = sensorsServiced]

\* The application calls readSensor(&sensorsServiced).
CallReadSensor ==
  /\ phase = "ready"
  /\ Runs("main")
  /\ fr["main"].op = "idle"
  /\ calls < MaxCalls
  /\ calls' = calls + 1
  /\ fr' = [fr EXCEPT !["main"] = ReadSensorFrame]
  /\ UNCHANGED << dev, ctor_e, drv, busy, sensorsServiced, phase, irq >>

\* Variant: the first byte received is not shifted into the high byte.
ReadTempLowByte(word) == ToS16(BitOr(word \div 256, word % 256))

\* The value readSensor stores in actualTemp_ for a word read from temp_r.
ReadTemp(word) == ToS16(i2cRead2B(word))

\* actualTemp_ = i2cRead2B(temp_r); then the minimum test and its update,
\* up to the call of progEeprom(thl_r, minTemp_).
RS_Read(c) ==
  /\ Runs(c)
  /\ fr[c].pc = "rs_read"
  /\ LET word == DevRead(dev, temp_r)
         t == ReadTemp(word)
         f == [fr[c] EXCEPT !.raw = word, !.nRead = 1]
     IN  /\ dev' = DevAfterRead(dev, temp_r)
         /\ actualTemp_' = t
         /\ IF BelowMin(t, minTemp_)
            THEN /\ minTemp_' = t
                 /\ fr' = [fr EXCEPT ![c] =
                      IF saveTemp_
                      THEN CallProg([f EXCEPT !.updMin = TRUE], thl_r, t,
                                    DefaultRetries, "rs_min_ret")
                      ELSE [f EXCEPT !.updMin = TRUE, !.pc = "rs_max"]]
            ELSE /\ minTemp_' = minTemp_
                 /\ fr' = [fr EXCEPT ![c] = [f EXCEPT !.pc = "rs_max"]]
  /\ UNCHANGED << ctor_e, error_, thisSensor_, saveTemp_, maxTemp_,
                  config_, busy, sensorsServiced, calls, phase, irq >>

\* if (progEeprom(...) && error_ != nullptr) error_(nodeError_t(thisSensor_));
AfterProg(f, rpc) ==
  [f EXCEPT !.pc = rpc,
            !.nFail = IF f.ret THEN f.nFail + 1 ELSE f.nFail,
            !.failed = IF f.ret THEN f.failed \cup {f.reg} ELSE f.failed,
            !.errs = IF f.ret /\ error_ # NoHandler
                     THEN Append(f.errs, thisSensor_) ELSE f.errs]

\* progEeprom(thl_r, minTemp_) has returned.
RS_MinRet(c) ==
  /\ Runs(c)
  /\ fr[c].pc = "rs_min_ret"
  /\ fr' = [fr EXCEPT ![c] = AfterProg(fr[c], "rs_max")]
  /\ UNCHANGED << dev, ctor_e, drv, busy, sensorsServiced, calls,
                  phase, irq >>

\* Variant: the maximum test is the else branch of the minimum test.
RS_MaxElseIf(c) ==
  /\ Runs(c)
  /\ fr[c].pc = "rs_max"
  /\ IF ~fr[c].updMin /\ actualTemp_ >= maxTemp_ + Hysteresis
     THEN /\ maxTemp_' = actualTemp_
          /\ fr' = [fr EXCEPT ![c] =
               IF saveTemp_
               THEN CallProg([fr[c] EXCEPT !.updMax = TRUE], tll_r, actualTemp_,
                             DefaultRetries, "rs_max_ret")
               ELSE [fr[c] EXCEPT !.updMax = TRUE, !.pc = "rs_done"]]
     ELSE /\ maxTemp_' = maxTemp_
          /\ fr' = [fr EXCEPT ![c].pc = "rs_done"]
  /\ UNCHANGED << dev, ctor_e, error_, thisSensor_, saveTemp_,
                  actualTemp_, minTemp_, config_, busy, sensorsServiced, calls,
                  phase, irq >>

\* The maximum test and its update, up to the call of progEeprom(tll_r, maxTemp_).
RS_Max(c) ==
  /\ Runs(c)
  /\ fr[c].pc = "rs_max"
  /\ IF AboveMax(actualTemp_, maxTemp_)
     THEN /\ maxTemp_' = actualTemp_
          /\ fr' = [fr EXCEPT ![c] =
               IF saveTemp_
               THEN CallProg([fr[c] EXCEPT !.updMax = TRUE], tll_r, actualTemp_,
                             DefaultRetries, "rs_max_ret")
               ELSE [fr[c] EXCEPT !.updMax = TRUE, !.pc = "rs_done"]]
     ELSE /\ maxTemp_' = maxTemp_
          /\ fr' = [fr EXCEPT ![c].pc = "rs_done"]
  /\ UNCHANGED << dev, ctor_e, error_, thisSensor_, saveTemp_,
                  actualTemp_, minTemp_, config_, busy, sensorsServiced, calls,
                  phase, irq >>

\* progEeprom(tll_r, maxTemp_) has returned.
RS_MaxRet(c) ==
  /\ Runs(c)
  /\ fr[c].pc = "rs_max_ret"
  /\ fr' = [fr EXCEPT ![c] = AfterProg(fr[c], "rs_done")]
  /\ UNCHANGED << dev, ctor_e, drv, busy, sensorsServiced, calls,
                  phase, irq >>

\* Variant: the serviced bit is not set.
RS_DoneNoBit(c) ==
  /\ Runs(c)
  /\ fr[c].pc = "rs_done"
  /\ fr' = [fr EXCEPT ![c].pc = "done", ![c].rv = actualTemp_]
  /\ UNCHANGED << dev, ctor_e, drv, busy, sensorsServiced, calls, phase, irq >>

\* Variant: the mask is assigned, not or-ed.
RS_DoneAssign(c) ==
  /\ Runs(c)
  /\ fr[c].pc = "rs_done"
  /\ sensorsServiced' = Sensor_serviced(thisSensor_)
  /\ fr' = [fr EXCEPT ![c].pc = "done", ![c].rv = actualTemp_]
  /\ UNCHANGED << dev, ctor_e, drv, busy, calls, phase, irq >>

\* *sensorsServiced |= Sensor_serviced(thisSensor_); return actualTemp_;
RS_Done(c) ==
  /\ Runs(c)
  /\ fr[c].pc = "rs_done"
  /\ sensorsServiced' = sensorsServiced \cup Sensor_serviced(thisSensor_)
  /\ fr' = [fr EXCEPT ![c].pc = "done", ![c].rv = actualTemp_]
  /\ UNCHANGED << dev, ctor_e, drv, busy, calls, phase, irq >>

ReadSensor(c) ==
  \/ RS_Read(c)
  \/ RS_MinRet(c)
  \/ RS_Max(c)
  \/ RS_MaxRet(c)
  \/ RS_Done(c)

\* ----------------------------------------------------- initPowerUpSettings
\* i2cRead2B(reg) != bound: a uint16_t against an int16_t, both promoted to int.
LimitDiffers(rd, bound) == rd # bound

\* (i2cRead2B(conf_r) & TMP117_CONF_RD) != (config_ & TMP117_CONF_RD)
ConfDiffers(rd, config) ==
  BitAnd(rd, TMP117_CONF_RD) # BitAnd(ToU16(config), TMP117_CONF_RD)

\* bool err = false; minTemp_ = 0x6000; maxTemp_ = 0x8000;
InitPowerUpSettings ==
  /\ phase = "ready"
  /\ Runs("main")
  /\ fr["main"].op = "idle"
  /\ calls < MaxCalls
  /\ calls' = calls + 1
  /\ minTemp_' = ToS16(SentinelMin)
  /\ maxTemp_' = ToS16(SentinelMax)
  /\ fr' = [fr EXCEPT !["main"] =
              [IdleFrame EXCEPT !.op = "initPowerUpSettings", !.pc = "ips_low"]]
  /\ UNCHANGED << dev, ctor_e, error_, thisSensor_, saveTemp_,
                  actualTemp_, config_, busy, sensorsServiced, phase, irq >>

\* if (i2cRead2B(tll_r) != maxTemp_) err |= progEeprom(tll_r, maxTemp_);
IPS_Low(c) ==
  /\ Runs(c)
  /\ fr[c].pc = "ips_low"
  /\ LET rd == i2cRead2B(DevRead(dev, tll_r))
         f == [fr[c] EXCEPT !.rdLow = rd, !.nRead = fr[c].nRead + 1]
     IN  fr' = [fr EXCEPT ![c] =
           IF LimitDiffers(rd, maxTemp_)
           THEN CallProg(f, tll_r, maxTemp_, DefaultRetries, "ips_low_ret")
           ELSE [f EXCEPT !.pc = "ips_high"]]
  /\ UNCHANGED << dev, ctor_e, drv, busy, sensorsServiced, calls,
                  phase, irq >>

\* Variant: err is assigned, not or-ed with, the result of the call.
IPS_RetAssign(c) ==
  /\ Runs(c)
  /\ fr[c].pc \in {"ips_low_ret", "ips_high_ret", "ips_conf_ret"}
  /\ LET f == fr[c] IN
     fr' = [fr EXCEPT ![c] =
        [f EXCEPT !.err = f.ret,
                  !.nFail = IF f.ret THEN f.nFail + 1 ELSE f.nFail,
                  !.pc = CASE f.pc = "ips_low_ret" -> "ips_high"
                           [] f.pc = "ips_high_ret" -> "ips_conf"
                           [] OTHER -> "ips_done"]]
  /\ UNCHANGED << dev, ctor_e, drv, busy, sensorsServiced, calls,
                  phase, irq >>

\* err |= the result of the progEeprom call that has returned.
IPS_Ret(c) ==
  /\ Runs(c)
  /\ fr[c].pc \in {"ips_low_ret", "ips_high_ret", "ips_conf_ret"}
  /\ LET f == fr[c] IN
     fr' = [fr EXCEPT ![c] =
        [f EXCEPT !.err = f.err \/ f.ret,
                  !.nFail = IF f.ret THEN f.nFail + 1 ELSE f.nFail,
                  !.pc = CASE f.pc = "ips_low_ret" -> "ips_high"
                           [] f.pc = "ips_high_ret" -> "ips_conf"
                           [] OTHER -> "ips_done"]]
  /\ UNCHANGED << dev, ctor_e, drv, busy, sensorsServiced, calls,
                  phase, irq >>

\* if (i2cRead2B(thl_r) != minTemp_) err |= progEeprom(thl_r, minTemp_);
IPS_High(c) ==
  /\ Runs(c)
  /\ fr[c].pc = "ips_high"
  /\ LET rd == i2cRead2B(DevRead(dev, thl_r))
         f == [fr[c] EXCEPT !.rdHigh = rd, !.nRead = fr[c].nRead + 1]
     IN  fr' = [fr EXCEPT ![c] =
           IF LimitDiffers(rd, minTemp_)
           THEN CallProg(f, thl_r, minTemp_, DefaultRetries, "ips_high_ret")
           ELSE [f EXCEPT !.pc = "ips_conf"]]
  /\ UNCHANGED << dev, ctor_e, drv, busy, sensorsServiced, calls,
                  phase, irq >>

\* if ((i2cRead2B(conf_r) & TMP117_CONF_RD) != (config_ & TMP117_CONF_RD))
\*   err |= progEeprom(conf_r, config_);
IPS_Conf(c) ==
  /\ Runs(c)
  /\ fr[c].pc = "ips_conf"
  /\ LET rd == i2cRead2B(DevRead(dev, conf_r))
         f == [fr[c] EXCEPT !.rdConf = rd, !.nRead = fr[c].nRead + 1]
     IN  fr' = [fr EXCEPT ![c] =
           IF ConfDiffers(rd, config_)
           THEN CallProg(f, conf_r, config_, DefaultRetries, "ips_conf_ret")
           ELSE [f EXCEPT !.pc = "ips_done"]]
  /\ UNCHANGED << dev, ctor_e, drv, busy, sensorsServiced, calls,
                  phase, irq >>

\* return err;
IPS_Done(c) ==
  /\ Runs(c)
  /\ fr[c].pc = "ips_done"
  /\ fr' = [fr EXCEPT ![c].pc = "done", ![c].ret = fr[c].err]
  /\ UNCHANGED << dev, ctor_e, drv, busy, sensorsServiced, calls,
                  phase, irq >>

InitPowerUp(c) ==
  \/ IPS_Low(c)
  \/ IPS_Ret(c)
  \/ IPS_High(c)
  \/ IPS_Conf(c)
  \/ IPS_Done(c)

\* ----------------------------------------------------------------- device
\* The device finishes its EEPROM write or its reload.
DevReady ==
  /\ dev.busy
  /\ dev' = [dev EXCEPT !.busy = FALSE]
  /\ UNCHANGED << ctor_e, drv, busy, sensorsServiced, calls, phase,
                  irq, fr >>

\* The one-shot conversion completes: a new result is in the temperature
\* register, the device is back in shutdown mode and the Alert pin falls.
DevConvert ==
  /\ dev.conv
  /\ \E t \in RawReadings :
       dev' = [dev EXCEPT !.reg[temp_r] = t,
                          !.reg[conf_r] = BitOr(BitAnd(@, TMP117_MOD_CLR_MASK), shutdown),
                          !.conv = FALSE,
                          !.alert = TRUE]
  /\ irq' = TRUE
  /\ UNCHANGED << ctor_e, drv, busy, sensorsServiced, calls, phase, fr >>

\* attachInterrupt(alertPin_, isr_, FALLING): the Data Ready handler of the
\* application runs readSensor, interrupting whatever the main context does.
IrqEnter ==
  /\ phase = "ready"
  /\ irq
  /\ fr["isr"].op = "idle"
  /\ irq' = FALSE
  /\ fr' = [fr EXCEPT !["isr"] = ReadSensorFrame]
  /\ UNCHANGED << dev, ctor_e, drv, busy, sensorsServiced, calls, phase >>

\* ----------------------------------------------------------- specifications
\* The application makes its calls one after the other.
Next ==
  \/ InitSensor
  \/ ReInit
  \/ CallProgEeprom
  \/ StartConversion
  \/ CallReadSensor
  \/ InitPowerUpSettings
  \/ ProgEeprom("main")
  \/ ReadSensor("main")
  \/ InitPowerUp("main")
  \/ Return("main")
  \/ DevReady
  \/ DevConvert

Spec == Init /\ [][Next]_vars

\* The application calls progEeprom directly, one call after the other.
NextProg ==
  \/ InitSensor
  \/ CallProgEeprom
  \/ ProgEeprom("main")
  \/ Return("main")
  \/ DevReady

\* The initial states that differ in what progEeprom reads or writes: the
\* limit and configuration cells and the fault mode of the device.
InitProg ==
  /\ Init
  /\ dev.reg[temp_r] = 2560
  /\ config_ = 8736

\* Direct calls on a running processor and a device that completes what it
\* has started: the call in progress takes its next step when it has one,
\* and a busy device becomes ready.
SpecFair ==
  /\ InitProg /\ [][NextProg]_vars
  /\ WF_vars(ProgEeprom("main"))
  /\ WF_vars(DevReady)

\* The application of tmp117_example.cpp: the main context starts conversions
\* and commits the power-up settings, and the Data Ready interrupt handler
\* (TempSensorReady) calls readSensor.
NextIrq ==
  \/ InitSensor
  \/ StartConversion
  \/ InitPowerUpSettings
  \/ ProgEeprom("main")
  \/ InitPowerUp("main")
  \/ Return("main")
  \/ DevReady
  \/ DevConvert
  \/ IrqEnter
  \/ ProgEeprom("isr")
  \/ ReadSensor("isr")
  \/ Return("isr")

SpecIrq == Init /\ [][NextIrq]_vars

\* ------------------------------------------------------------------ claims
\* Context c is between Acquire (busy set) and Release (busy cleared).
InCS(c) ==
  fr[c].pc \in {"pe_unlock", "pe_program", "pe_poll1", "pe_reset", "pe_poll2",
                "pe_verify", "pe_release"}

\* A top-level progEeprom call of context c has just returned to its caller.
Returned(c) ==
  \/ fr[c].op = "progEeprom" /\ fr[c].pc = "done"
  \/ fr[c].pc \in {"rs_min_ret", "rs_max_ret",
                   "ips_low_ret", "ips_high_ret", "ips_conf_ret"}

\* A readSensor call of context c has returned.
ReadDone(c) == fr[c].op = "readSensor" /\ fr[c].pc = "done"

\* C1: at most one EEPROM programming operation is in flight: the main
\* context and the interrupt handler are never both between Acquire and
\* Release, and whoever is there holds the latch.
C1_OneInFlight ==
  /\ ~(InCS("main") /\ InCS("isr"))
  /\ \A c \in Ctx : InCS(c) => busy

\* C1 witness: the handler is inside the programming sequence while the main
\* context has passed the entry test and has not yet set the latch.
C1_Witness == fr["main"].pc = "pe_acquire" /\ InCS("isr")

\* C2: when a top-level progEeprom call returns (success, failure after the
\* retries, or a negative budget at entry), the latch is not held.
C2_LatchFree == \A c \in Ctx : Returned(c) => ~busy

\* C2 witness: a call with budget 2 has returned failure after three attempts.
C2_Witness ==
  \E c \in Ctx : Returned(c) /\ fr[c].ret /\ fr[c].budget0 = 2 /\ fr[c].nVerify = 3

\* C3: a progEeprom call entered with the latch held or with a negative
\* budget returns the error flag in that step, with no transport read or
\* write and with the latch as it was.
C3_RefusedAtEntry ==
  [][\A c \in Ctx :
       (fr[c].pc = "pe_guard" /\ fr'[c] # fr[c] /\ (busy \/ fr[c].retries < 0))
       => /\ fr'[c].pc = fr[c].rpc
          /\ fr'[c].ret = TRUE
          /\ dev' = dev
          /\ busy' = busy
          /\ fr'[c].nWrite = fr[c].nWrite
          /\ fr'[c].nRead = fr[c].nRead]_vars

\* C3 witness: the handler's call was refused because the main context holds
\* the latch; it made no attempt.
C3_Witness ==
  /\ fr["isr"].pc = "rs_min_ret"
  /\ fr["isr"].refused
  /\ fr["isr"].nUnlock = 0
  /\ InCS("main")
  /\ busy

\* C4: a call with budget n >= 0 makes at most n + 1 attempts, each of one
\* unlock write, one program write, one general-call reset and one verify
\* read; when it returns failure it has made exactly n + 1, and on a device
\* whose read-back never matches it returns failure.
C4_Attempts ==
  \A c \in Ctx :
    (Returned(c) /\ fr[c].budget0 >= 0) =>
      /\ fr[c].nUnlock = fr[c].nVerify
      /\ fr[c].nProgram = fr[c].nVerify
      /\ fr[c].nReset = fr[c].nVerify
      /\ fr[c].nVerify >= 1
      /\ fr[c].nVerify <= fr[c].budget0 + 1
      /\ fr[c].ret => fr[c].nVerify = fr[c].budget0 + 1
      /\ dev.fails = AlwaysFails => fr[c].ret

\* C4 witness: budget 2, read-back never matching: three attempts, failure.
C4_Witness ==
  \E c \in Ctx :
    /\ Returned(c) /\ fr[c].budget0 = DefaultRetries /\ dev.fails = AlwaysFails
    /\ fr[c].nUnlock = 3 /\ fr[c].nProgram = 3 /\ fr[c].nReset = 3
    /\ fr[c].nVerify = 3 /\ fr[c].ret

\* C5: for a sensor constructed with an error handler, a readSensor call in
\* which a programming operation failed has called the handler, and only with
\* the sensor's index.
C5_FailureReported ==
  \A c \in Ctx :
    (ReadDone(c) /\ ctor_e # NoHandler /\ fr[c].nFail > 0) =>
      /\ Len(fr[c].errs) > 0
      /\ \A i \in 1 .. Len(fr[c].errs) : fr[c].errs[i] = thisSensor_

\* C6: scenario C: prior min 3000, max 2000, persistence enabled, a handler
\* supplied, every programming operation failing, reading 2560: the handler
\* is called exactly once, with the sensor's index.
C6_ScenarioC ==
  \A c \in Ctx :
    ( /\ ReadDone(c) /\ ctor_e # NoHandler /\ saveTemp_
      /\ dev.fails = AlwaysFails
      /\ fr[c].min0 = 3000 /\ fr[c].max0 = 2000 /\ fr[c].raw = 2560 )
    => fr[c].errs = << thisSensor_ >>

\* C7: scenario A: initPowerUpSettings on a device whose low limit reads
\* 0x8000, whose high limit reads 0x6000 and whose configuration matches
\* config_ under the read-back mask makes no transport write and returns false.
C7_ScenarioA ==
  \A c \in Ctx :
    ( /\ fr[c].op = "initPowerUpSettings" /\ fr[c].pc = "done"
      /\ fr[c].rdLow = SentinelMax /\ fr[c].rdHigh = SentinelMin
      /\ ~ConfDiffers(fr[c].rdConf, config_) )
    => (fr[c].nWrite = 0 /\ fr[c].ret = FALSE)

\* The case of scenario B: persistence disabled, prior min 3000, max 2000,
\* reading 2560.
ScenarioB(c) ==
  /\ ReadDone(c) /\ ~saveTemp_
  /\ fr[c].min0 = 3000 /\ fr[c].max0 = 2000 /\ fr[c].raw = 2560

\* C8 as stated: scenario B leaves min at 3000, sets max to 2560, calls no
\* handler and sets the serviced bit.
C8_ScenarioB_Stated ==
  \A c \in Ctx :
    ScenarioB(c) =>
      /\ minTemp_ = 3000
      /\ maxTemp_ = 2560
      /\ fr[c].errs = << >>
      /\ thisSensor_ \in sensorsServiced

\* C8 amended: scenario B sets min to 2560 (2560 <= 3000 - 6) and max to 2560
\* (2560 >= 2000 + 6), makes no transport write, calls no handler and sets
\* the serviced bit.
C8_ScenarioB ==
  \A c \in Ctx :
    ScenarioB(c) =>
      /\ minTemp_ = 2560
      /\ maxTemp_ = 2560
      /\ fr[c].nWrite = 0
      /\ fr[c].errs = << >>
      /\ thisSensor_ \in sensorsServiced

\* C8 witness: scenario B has run, after a startConversion.
C8_Witness == ScenarioB("main") /\ calls = 2

\* C9: a readSensor call with reading r sets min to r exactly when
\* r <= min - 6 and max to r exactly when r >= max + 6, each test on its own;
\* min never increases and max never decreases.
C9_Hysteresis ==
  \A c \in Ctx :
    ReadDone(c) =>
      LET r == ToS16(fr[c].raw) IN
      /\ minTemp_ = IF r <= fr[c].min0 - 6 THEN r ELSE fr[c].min0
      /\ maxTemp_ = IF r >= fr[c].max0 + 6 THEN r ELSE fr[c].max0
      /\ minTemp_ <= fr[c].min0
      /\ maxTemp_ >= fr[c].max0

\* C9 witness: one reading has updated both bounds.
C9_Witness ==
  \E c \in Ctx :
    ReadDone(c) /\ minTemp_ < fr[c].min0 /\ maxTemp_ > fr[c].max0

\* C10: after readSensor, the current slot and the return value are the word
\* read from the temperature register, also when persistence has failed, and
\* a bound updated by the call holds the reading.
C10_CurrentExact ==
  \A c \in Ctx :
    ReadDone(c) =>
      /\ ToU16(getTemperature(T_NOW)) = fr[c].raw
      /\ fr[c].rv = getTemperature(T_NOW)
      /\ fr[c].updMin => getTemperature(T_MIN) = fr[c].rv
      /\ fr[c].updMax => getTemperature(T_MAX) = fr[c].rv

\* C10 witness: a reading with the sign bit set, both programming operations
\* of the call failed.
C10_Witness ==
  \E c \in Ctx :
    ReadDone(c) /\ fr[c].nFail = 2 /\ fr[c].raw = 65530 /\ actualTemp_ = -6

\* The words a and b agree on the bits of the configuration read-back mask.
SameUnderMask(a, b) ==
  BitAnd(ToU16(a), TMP117_CONF_RD) = BitAnd(ToU16(b), TMP117_CONF_RD)

\* C11: the verify step treats a configuration read-back that agrees with the
\* value under mask 0x0464 as a match (the call returns false, no retry), and
\* compares every other register on all 16 bits.
C11_VerifyMasking ==
  [][\A c \in Ctx :
       (fr[c].pc = "pe_decide" /\ fr'[c] # fr[c]) =>
         LET same == IF fr[c].reg = conf_r
                     THEN SameUnderMask(fr[c].rawCheck, fr[c].valIn)
                     ELSE fr[c].rawCheck = fr[c].valIn
         IN  IF same
             THEN fr'[c].pc = fr[c].rpc /\ fr'[c].ret = FALSE
             ELSE fr'[c].pc = "pe_guard" /\ fr'[c].retries = fr[c].retries - 1]_vars

\* C11 witness: a configuration read-back that differs from the value written,
\* outside the mask only, has been accepted.
C11_Witness ==
  \E c \in Ctx :
    /\ Returned(c) /\ fr[c].reg = conf_r /\ ~fr[c].ret
    /\ fr[c].rawCheck # fr[c].valIn

\* An initPowerUpSettings call of context c has returned.
PowerUpDone(c) == fr[c].op = "initPowerUpSettings" /\ fr[c].pc = "done"

\* C12: initPowerUpSettings returns true exactly when one of the programming
\* operations it invoked failed, and it invokes one for every register whose
\* read-back differs, whatever became of the earlier ones.
C12_ErrorFlag ==
  \A c \in Ctx :
    PowerUpDone(c) =>
      /\ fr[c].ret <=> (fr[c].nFail > 0)
      /\ fr[c].rdLow # 32768 => tll_r \in fr[c].tried
      /\ fr[c].rdHigh # 24576 => thl_r \in fr[c].tried
      /\ ~SameUnderMask(fr[c].rdConf, config_) => conf_r \in fr[c].tried

\* C12 witness: the low limit failed, the high limit and the configuration
\* were programmed after it and succeeded; the call returned true.
C12_Witness ==
  \E c \in Ctx :
    /\ PowerUpDone(c) /\ fr[c].ret /\ fr[c].nFail = 1
    /\ fr[c].tried = {tll_r, thl_r, conf_r}

\* C13: startConversion writes one word to the configuration register: its
\* mode field (0x0C00) is one-shot and every other bit is the bit just read.
C13_StartPreserves ==
  \A c \in Ctx :
    (fr[c].op = "startConversion" /\ fr[c].pc = "done") =>
      /\ BitAnd(fr[c].wrConf, 3072) = 3072
      /\ BitAnd(fr[c].wrConf, 62463) = BitAnd(fr[c].rdConf, 62463)
      /\ fr[c].nWrite = 1

\* C13 witness: the configuration read has the averaging field and bit 15
\* set; the word written keeps them.
C13_Witness ==
  /\ fr["main"].op = "startConversion" /\ fr["main"].pc = "done"
  /\ fr["main"].rdConf = 33312 /\ fr["main"].wrConf = 36384

\* C14: a readSensor call that has returned has set the bit of this sensor in
\* the serviced mask and changed no other bit of the mask it was given,
\* whatever the bounds and the programming did.
C14_ServicedBit ==
  \A c \in Ctx :
    ReadDone(c) =>
      /\ thisSensor_ \in sensorsServiced
      /\ sensorsServiced \ {thisSensor_} = fr[c].serviced0 \ {thisSensor_}

\* C14 witness: sensor 31 with another sensor's bit already set, a bound
\* updated and its programming failed.
C14_Witness ==
  \E c \in Ctx :
    /\ ReadDone(c) /\ thisSensor_ = 31 /\ fr[c].nFail > 0
    /\ fr[c].serviced0 = {1} /\ sensorsServiced = {1, 31}

\* One step of context c inside a programming attempt, as the order of the
\* attempt requires it.
AttemptStep(c) ==
  LET f == fr[c]
      g == fr'[c]
  IN  CASE f.pc = "pe_acquire" ->
             g.pc = "pe_unlock" /\ busy' /\ dev' = dev
        [] f.pc = "pe_unlock" ->
             /\ g.pc = "pe_program" /\ busy
             /\ dev'.unlocked /\ dev'.reg = dev.reg /\ dev'.eep = dev.eep
        [] f.pc = "pe_program" ->
             /\ g.pc = "pe_poll1" /\ busy /\ dev.unlocked
             /\ dev'.reg[f.reg] = ToU16(f.val) /\ dev'.busy
             /\ \A r \in DevRegs \ {f.reg} : dev'.reg[r] = dev.reg[r]
        [] f.pc = "pe_poll1" ->
             g.pc = "pe_reset" /\ busy /\ ~dev.busy /\ dev' = dev
        [] f.pc = "pe_reset" ->
             /\ g.pc = "pe_poll2" /\ busy /\ ~dev.busy
             /\ dev' = DevGeneralCall(dev)
             /\ f.nReset = f.nVerify /\ g.nReset = f.nReset + 1
        [] f.pc = "pe_poll2" ->
             g.pc = "pe_verify" /\ busy /\ ~dev.busy /\ dev' = dev
        [] f.pc = "pe_verify" ->
             /\ g.pc = "pe_release" /\ busy /\ dev' = dev
             /\ g.rawCheck = ToS16(dev.reg[f.reg])
             /\ f.nReset = f.nVerify + 1 /\ g.nVerify = f.nVerify + 1
        [] f.pc = "pe_release" ->
             g.pc = "pe_decide" /\ ~busy' /\ dev' = dev
        [] OTHER -> TRUE

\* C15: every step of a programming attempt is the next one of the order
\* acquire, unlock, program, wait, general-call reset, wait, read back,
\* release; the reset is issued only when the device reads not busy, and the
\* read-back only after the reset of the same attempt.
C15_AttemptOrder ==
  [][\A c \in Ctx : fr'[c] # fr[c] => AttemptStep(c)]_vars

\* C15 witness: a call has completed two full attempts.
C15_Witness ==
  \E c \in Ctx :
    /\ fr[c].pc = "pe_decide" /\ ~busy
    /\ fr[c].nUnlock = 2 /\ fr[c].nProgram = 2
    /\ fr[c].nReset = 2 /\ fr[c].nVerify = 2

\* C16: every attempt of a progEeprom call, the first and each retry, writes
\* to the register the caller named the 16-bit value the caller passed.
C16_RetrySameValue ==
  \A c \in Ctx :
    fr[c].pc = "pe_program" => fr[c].val = fr[c].val0

\* The reading of the readSensor call of context c lies strictly inside the
\* margins of the bounds the call started with.
InBand(c) ==
  LET r == ToS16(fr[c].raw)
  IN  fr[c].min0 - 6 < r /\ r < fr[c].max0 + 6

\* C17: a readSensor call with persistence disabled, or whose reading lies
\* inside the margins, makes one transport read (of the temperature
\* register), no transport write, no call of progEeprom and no call of the
\* error handler; progEeprom is called only with persistence enabled and a
\* bound updated.
C17_HotPath ==
  \A c \in Ctx :
    fr[c].op = "readSensor" =>
      /\ (~saveTemp_ \/ InBand(c)) =>
            /\ fr[c].nWrite = 0 /\ fr[c].tried = {} /\ fr[c].errs = << >>
            /\ fr[c].nRead = IF fr[c].pc = "rs_read" THEN 0 ELSE 1
      /\ fr[c].tried # {} => saveTemp_ /\ (fr[c].updMin \/ fr[c].updMax)

\* C17 witness: persistence is enabled and the reading is inside the margins.
C17_Witness ==
  \E c \in Ctx :
    /\ ReadDone(c) /\ saveTemp_ /\ InBand(c)
    /\ fr[c].nRead = 1 /\ fr[c].nWrite = 0

\* Context c is inside a progEeprom call, nested calls included.
InProg(c) ==
  fr[c].pc \in {"pe_guard", "pe_acquire", "pe_unlock", "pe_program",
                "pe_poll1", "pe_reset", "pe_poll2", "pe_verify",
                "pe_release", "pe_decide"}

\* C18: with a device that clears its busy flag after each programming
\* operation and each reset, every progEeprom call returns to its caller,
\* whatever the read-backs show.
C18_Terminates ==
  \A c \in Ctx : InProg(c) ~> ~InProg(c)

\* C18 witness: a call whose first read-back did not match has returned, the
\* device ready again, after a retry that matched.
C18_Witness ==
  \E c \in Ctx :
    /\ fr[c].op = "progEeprom" /\ fr[c].pc = "done" /\ ~dev.busy
    /\ ~fr[c].ret /\ fr[c].nVerify = 2 /\ fr[c].retries = fr[c].budget0 - 1

\* C19: when a readSensor call has returned, the current reading lies
\* strictly inside the margins of the bounds, min - 6 < current < max + 6 in
\* exact integers, so the same reading again passes neither bound test.
C19_InsideMargins ==
  \A c \in Ctx :
    ReadDone(c) =>
      /\ minTemp_ - 6 < actualTemp_ /\ actualTemp_ < maxTemp_ + 6
      /\ fr[c].rv = actualTemp_
      /\ ~BelowMin(actualTemp_, minTemp_) /\ ~AboveMax(actualTemp_, maxTemp_)

\* C19 witness: the call started from the sentinel bounds 0x6000 and 0x8000
\* (-32768) and read a negative temperature.
C19_Witness ==
  \E c \in Ctx :
    /\ ReadDone(c) /\ fr[c].min0 = 24576 /\ fr[c].max0 = -32768
    /\ actualTemp_ = -6 /\ minTemp_ = -6 /\ maxTemp_ = -6

\* An init of context c has returned; the call before it was op.
InitAfter(c, op) ==
  fr[c].op = "init" /\ fr[c].pc = "done" /\ fr[c].prevOp = op

\* C20: an init that follows a readSensor call which updated min (max) to r
\* and programmed it with success loads min (max) equal to r, from the
\* register and from the EEPROM cell behind it; an init that follows a
\* successful initPowerUpSettings loads the sentinels 0x6000 and 0x8000.
C20_RoundTrip ==
  \A c \in Ctx :
    /\ (InitAfter(c, "readSensor") /\ saveTemp_ /\ fr[c].updMin
          /\ thl_r \notin fr[c].failed) =>
         /\ minTemp_ = ToS16(fr[c].raw) /\ minTemp_ = fr[c].cmin
         /\ ToS16(dev.eep[thl_r]) = minTemp_
    /\ (InitAfter(c, "readSensor") /\ saveTemp_ /\ fr[c].updMax
          /\ tll_r \notin fr[c].failed) =>
         /\ maxTemp_ = ToS16(fr[c].raw) /\ maxTemp_ = fr[c].cmax
         /\ ToS16(dev.eep[tll_r]) = maxTemp_
    /\ (InitAfter(c, "initPowerUpSettings") /\ ~fr[c].ret) =>
         /\ minTemp_ = 24576 /\ minTemp_ = fr[c].cmin
         /\ maxTemp_ = -32768 /\ maxTemp_ = fr[c].cmax

\* C20 witness: both bounds were updated to -6 and programmed with success,
\* and init has loaded them again.
C20_Witness ==
  \E c \in Ctx :
    /\ InitAfter(c, "readSensor") /\ saveTemp_
    /\ fr[c].updMin /\ fr[c].updMax /\ fr[c].failed = {}
    /\ fr[c].tried = {thl_r, tll_r}
    /\ minTemp_ = -6 /\ maxTemp_ = -6 /\ fr[c].raw = 65530

====
